---- MODULE Spec2Model ----
(***************************************************************************)
(* Model of openage/convert/service/export/png/png_create.pyx: the PNG     *)
(* encode facade save(), the default path optimize_default(), the greedy   *)
(* path optimize_greedy() with its parameter search                        *)
(* optimize_greedy_iterate(), and the trial encoder write_to_file().       *)
(*                                                                         *)
(* libpng is external.  One call of write_to_file() on the raster either   *)
(* produces an encoded byte sequence, which depends on the raster and the  *)
(* four parameters only, or ends in png_error(), which terminates the      *)
(* process because no error handler and no setjmp target is installed.     *)
(* The bytes are chosen when a parameter tuple is first encoded and are    *)
(* remembered in codec, so every later encode with that tuple repeats them.*)
(***************************************************************************)
EXTENDS Integers, Sequences, FiniteSets, TLC

(* ---- bounds of the model ---- *)
MaxSize == 2
MaxCalls == 2

(* ---- program constants ---- *)
GREEDY_COMPR_LVL_MIN == 9
GREEDY_COMPR_LVL_MAX == 9
GREEDY_COMPR_MEM_LVL_MIN == 8
GREEDY_COMPR_MEM_LVL_MAX == 8
GREEDY_COMPR_STRAT_MIN == 0
GREEDY_COMPR_STRAT_MAX == 3
GREEDY_FILTER_0 == 8
GREEDY_FILTER_5 == 248
UNSET == 255
INT_MAX == 2147483647
EOF_ERR == -1
CHANNELS == 4

(* class CompressionMethod *)
CompressionMethod == {"COMPR_NONE", "COMPR_DEFAULT", "COMPR_GREEDY", "COMPR_AGGRESSIVE"}

(* struct greedy_replay_param *)
Param(l, m, s, f) == [compr_lvl |-> l, mem_lvl |-> m, strat |-> s, filters |-> f]

UnsetParam == Param(UNSET, UNSET, UNSET, UNSET)

(* the 4-tuple save() builds from the used settings *)
AsTuple(p) == <<p.compr_lvl, p.mem_lvl, p.strat, p.filters>>

(* Python's None for best_settings and for an absent compr_settings; an     *)
(* empty tuple is falsy as well and takes the same branch in save().       *)
None == <<>>

(* ---- inputs ---- *)

(* imagedata: shape (height, width, channels); the buffer holds            *)
(* height * width * channels bytes.                                        *)
Raster(w, h, c) == [width |-> w, height |-> h, channels |-> c]

Rasters == {Raster(1, 1, 4), Raster(0, 1, 4), Raster(1, 0, 4), Raster(1, 1, 3)}

BufferLen(r) == r.height * r.width * r.channels

(* allowed values documented for write_to_file() *)
AllowedLvl == 1 .. 9
AllowedMemLvl == 1 .. 9
AllowedStrat == 0 .. 3
AllowedFilters == {8, 16, 32, 64, 128, 248}

(* the tuples tried by the search, as a set *)
Candidates ==
    { Param(l, m, s, f) :
        l \in GREEDY_COMPR_LVL_MIN .. GREEDY_COMPR_LVL_MAX,
        m \in GREEDY_COMPR_MEM_LVL_MIN .. GREEDY_COMPR_MEM_LVL_MAX,
        s \in GREEDY_COMPR_STRAT_MIN .. GREEDY_COMPR_STRAT_MAX,
        f \in {GREEDY_FILTER_0, GREEDY_FILTER_5} }

(* compr_settings a caller may pass on a first call: nothing, a tuple the   *)
(* search can return, or the tuple (9, 8, 0, 8) with one field replaced by *)
(* the unset value or by a value outside the allowed range.                *)
OddSettings ==
    { <<UNSET, 8, 0, 8>>, <<10, 8, 0, 8>>, <<0, 8, 0, 8>>,
      <<9, UNSET, 0, 8>>, <<9, 10, 0, 8>>,
      <<9, 8, UNSET, 8>>, <<9, 8, 4, 8>>,
      <<9, 8, 0, UNSET>>, <<9, 8, 0, 0>> }

CallerSettings == {None} \cup {AsTuple(p) : p \in Candidates} \cup OddSettings

(* encoded byte sequences: length 1 .. MaxSize *)
ByteStrings == { [i \in 1 .. n |-> 0] : n \in 1 .. MaxSize }

VARIABLES
    raster,          \* the raster under conversion (imagedata, width, height)
    codec,           \* libpng on this raster: parameter tuple -> encoded bytes, where asked
    codec_default,   \* png_image_write_to_memory on this raster: <<>> until asked
    pc,              \* position of the program
    ncalls,          \* calls of save() started
    ftell_failed,    \* a size query of a trial has failed
    compr_method,    \* save(): argument
    compr_settings,  \* save(): argument
    replay,          \* save()/optimize_greedy(): struct greedy_replay_param
    filters,         \* optimize_greedy_iterate(): loop variables
    strategy,
    compr_lvl,
    mem_lvl,
    best,            \* optimize_greedy_iterate(): best_compr_lvl .. best_filters
    best_filesize,
    current_filesize,
    trials,          \* write_to_file() calls made by the search of this call
    writes,          \* write_to_file() calls made by optimize_greedy itself in this call
    encodes,         \* write_to_file() calls entered in this call, failed ones included
    sinks,           \* optimize_greedy_iterate(): free() calls on each open_memstream() buffer
    default_calls,   \* png_image_write_to_memory() calls of this call
    outdata,         \* result of save(): the bytearray
    best_settings,   \* result of save(): the tuple or None
    hist             \* completed calls of save(), oldest first

vars == <<raster, codec, codec_default, pc, ncalls, ftell_failed, compr_method, compr_settings,
          replay, filters, strategy, compr_lvl, mem_lvl, best, best_filesize,
          current_filesize, trials, writes, encodes, sinks, default_calls, outdata,
          best_settings, hist>>

loopvars == <<filters, strategy, compr_lvl, mem_lvl>>
searchvars == <<best, best_filesize, current_filesize, trials>>
resultvars == <<outdata, best_settings>>
callvars == <<compr_method, compr_settings>>

EmptyCodec == [p \in {} |-> <<>>]

Init ==
    /\ raster \in Rasters
    /\ codec = EmptyCodec
    /\ codec_default = <<>>
    /\ pc = "idle"
    /\ ncalls = 0
    /\ ftell_failed = FALSE
    /\ compr_method = "COMPR_DEFAULT"
    /\ compr_settings = None
    /\ replay = UnsetParam
    /\ filters = GREEDY_FILTER_0
    /\ strategy = GREEDY_COMPR_STRAT_MIN
    /\ compr_lvl = GREEDY_COMPR_LVL_MIN
    /\ mem_lvl = GREEDY_COMPR_MEM_LVL_MIN
    /\ best = UnsetParam
    /\ best_filesize = INT_MAX
    /\ current_filesize = INT_MAX
    /\ trials = <<>>
    /\ writes = <<>>
    /\ encodes = 0
    /\ sinks = <<>>
    /\ default_calls = 0
    /\ outdata = <<>>
    /\ best_settings = None
    /\ hist = <<>>


(* ---- helpers ---- *)

(* png_set_IHDR() and png_image_write_to_memory() refuse a width or height *)
(* of zero: libpng reports "Invalid IHDR data".                            *)
CodecAccepts(r) == r.width > 0 /\ r.height > 0

(* codec after encoding p to out *)
Remember(p, out) == [q \in DOMAIN codec \cup {p} |-> IF q = p THEN out ELSE codec[q]]

(* libpng reads width * 4 bytes of every row: the rows lie inside the buffer *)
RowsInBuffer(r) == r.width * r.height * CHANNELS <= BufferLen(r)

(* the byte sequences libpng may write for p on this raster: those of the   *)
(* earlier encode with p, unless the rows read reach past the buffer, where *)
(* the bytes read are not determined                                        *)
Encodings(p) ==
    IF p \in DOMAIN codec /\ RowsInBuffer(raster) THEN {codec[p]} ELSE ByteStrings

(* the same for png_image_write_to_memory() *)
DefaultEncodings ==
    IF codec_default # <<>> /\ RowsInBuffer(raster) THEN {codec_default} ELSE ByteStrings

(* the values ftell() may return on a stream holding out: its length, or -1 *)
(* (one size query at most fails in a behaviour)                            *)
Ftell(out) == {Len(out)} \cup (IF ftell_failed THEN {} ELSE {EOF_ERR})

(* variants of the comparison *)
BetterInverted(current, bestsize) == current > bestsize

BetterOrEqual(current, bestsize) == current <= bestsize

(* the comparison that decides whether a trial replaces the best so far *)
Better(current, bestsize) == current < bestsize

(* variant: the upper filter test off by one *)
TriedFrom(f) == f = GREEDY_FILTER_0 \/ f >= GREEDY_FILTER_5 - 1

(* the filter values whose loop body runs *)
Tried(f) == ~(f # GREEDY_FILTER_0 /\ f # GREEDY_FILTER_5)

(* variant: the search is not conditional *)
NeedsSearchAlways(r) == TRUE

(* the test of optimize_greedy() that starts the search *)
NeedsSearch(r) == r.compr_lvl = UNSET

(* the replay struct save() fills in *)
ReplayOf(settings) ==
    IF Len(settings) > 0
    THEN Param(settings[1], settings[2], settings[3], settings[4])
    ELSE UnsetParam

(* variant: the settings passed in are reported back *)
DefaultSettingsEcho(settings) == settings

(* what save() reports as the second element for the non-greedy methods *)
DefaultSettings(settings) == None

(* the record kept of a finished call *)
Done(status, out, settings, ws) ==
    [status |-> status, method |-> compr_method, settings |-> compr_settings,
     outdata |-> out, best_settings |-> settings, trials |-> trials, writes |-> ws]


(* ---- save() ---- *)
Save(method, settings) ==
    /\ ncalls < MaxCalls
    /\ ncalls' = ncalls + 1
    /\ compr_method' = method
    /\ compr_settings' = settings
    /\ IF method = "COMPR_GREEDY"
       THEN /\ replay' = ReplayOf(settings)
            /\ pc' = "optimize_greedy"
       ELSE /\ replay' = replay
            /\ pc' = "optimize_default"
    /\ trials' = <<>>
    /\ writes' = <<>>
    /\ encodes' = 0
    /\ sinks' = <<>>
    /\ default_calls' = 0
    /\ outdata' = <<>>
    /\ best_settings' = None
    /\ UNCHANGED <<raster, codec, codec_default, ftell_failed, loopvars, best, best_filesize,
                   current_filesize, hist>>

(* the first call: any method, any settings *)
SaveCall ==
    /\ pc = "idle"
    /\ \E method \in CompressionMethod, settings \in CallerSettings : Save(method, settings)

(* the first call of a caller that searches: COMPR_GREEDY, no settings *)
SaveSearch ==
    /\ pc = "idle"
    /\ Save("COMPR_GREEDY", None)

(* a later call on the same raster: the caller replays the settings the previous call reported *)
SaveReplay ==
    /\ pc = "returned"
    /\ best_settings # None
    /\ Save("COMPR_GREEDY", best_settings)

(* ---- optimize_default() and the return of save() ---- *)
DefaultEncode ==
    /\ pc = "optimize_default"
    /\ CodecAccepts(raster)
    /\ \E out \in DefaultEncodings :
        /\ codec_default' = out
        /\ default_calls' = 2
        /\ outdata' = out
        /\ best_settings' = DefaultSettings(compr_settings)
        /\ hist' = Append(hist, Done("returned", out, DefaultSettings(compr_settings), writes))
    /\ pc' = "returned"
    /\ UNCHANGED <<sinks, encodes, raster, codec, ncalls, ftell_failed, callvars, replay, loopvars,
                   searchvars, writes>>

DefaultFail ==
    /\ pc = "optimize_default"
    /\ \E n \in 1 .. 2 : default_calls' = n
    /\ pc' = "raised"
    /\ hist' = Append(hist, Done("raised", <<>>, None, writes))
    /\ UNCHANGED <<sinks, encodes, ftell_failed, raster, codec, codec_default, ncalls, callvars,
                   replay, loopvars, searchvars, writes, resultvars>>

(* ---- optimize_greedy(): entry ---- *)
GreedyEnter ==
    /\ pc = "optimize_greedy"
    /\ IF NeedsSearch(replay)
       THEN /\ pc' = "iterate"
            /\ best_filesize' = INT_MAX
            /\ current_filesize' = INT_MAX
            /\ best' = UnsetParam
            /\ filters' = GREEDY_FILTER_0
            /\ strategy' = GREEDY_COMPR_STRAT_MIN
            /\ compr_lvl' = GREEDY_COMPR_LVL_MIN
            /\ mem_lvl' = GREEDY_COMPR_MEM_LVL_MIN
       ELSE /\ pc' = "encode"
            /\ UNCHANGED <<loopvars, best, best_filesize, current_filesize>>
    /\ UNCHANGED <<sinks, encodes, raster, codec, codec_default, ncalls, ftell_failed, callvars,
                   replay, trials, writes, default_calls, resultvars, hist>>

(* ---- optimize_greedy_iterate() ---- *)

(* open_memstream(&buf, &len): a new buffer, which buf points to from now   *)
(* on; fclose(fp) leaves the buffer to the caller                           *)
Opened(bufs) == Append(bufs, 0)

(* free(buf) after the loops: the buffer of the last open_memstream()       *)
Freed(bufs) ==
    IF Len(bufs) = 0
    THEN bufs
    ELSE [bufs EXCEPT ![Len(bufs)] = bufs[Len(bufs)] + 1]

(* the loop variables after one pass through the innermost body *)
Advance ==
    IF mem_lvl + 1 <= GREEDY_COMPR_MEM_LVL_MAX
    THEN <<filters, strategy, compr_lvl, mem_lvl + 1>>
    ELSE IF compr_lvl + 1 <= GREEDY_COMPR_LVL_MAX
    THEN <<filters, strategy, compr_lvl + 1, GREEDY_COMPR_MEM_LVL_MIN>>
    ELSE IF strategy + 1 <= GREEDY_COMPR_STRAT_MAX
    THEN <<filters, strategy + 1, GREEDY_COMPR_LVL_MIN, GREEDY_COMPR_MEM_LVL_MIN>>
    ELSE <<filters + 1, GREEDY_COMPR_STRAT_MIN, GREEDY_COMPR_LVL_MIN, GREEDY_COMPR_MEM_LVL_MIN>>

(* a filter value between the two tried ones: continue *)
IterSkip ==
    /\ pc = "iterate"
    /\ filters <= GREEDY_FILTER_5
    /\ ~Tried(filters)
    /\ filters' = filters + 1
    /\ UNCHANGED <<sinks, encodes, raster, codec, codec_default, pc, ncalls, ftell_failed, callvars,
                   replay, strategy, compr_lvl, mem_lvl, searchvars, writes, default_calls,
                   resultvars, hist>>

(* one trial: open_memstream, write_to_file, fseek, ftell, compare, fclose *)
IterTrial ==
    /\ pc = "iterate"
    /\ sinks' = Opened(sinks)
    /\ encodes' = encodes + 1
    /\ CodecAccepts(raster)
    /\ filters <= GREEDY_FILTER_5
    /\ Tried(filters)
    /\ LET p == Param(compr_lvl, mem_lvl, strategy, filters) IN
       \E out \in Encodings(p) : \E pos \in Ftell(out) :
         LET size == pos IN    \* int current_filesize: every position of the model fits
            /\ codec' = Remember(p, out)
            /\ ftell_failed' = (ftell_failed \/ pos = EOF_ERR)
            /\ current_filesize' = size
            /\ IF Better(size, best_filesize)
               THEN /\ best' = p
                    /\ best_filesize' = size
               ELSE UNCHANGED <<best, best_filesize>>
            /\ trials' = Append(trials, [params |-> p, bytes |-> out, size |-> size,
                                         failed |-> (pos = EOF_ERR)])
    /\ filters' = Advance[1]
    /\ strategy' = Advance[2]
    /\ compr_lvl' = Advance[3]
    /\ mem_lvl' = Advance[4]
    /\ UNCHANGED <<raster, codec_default, pc, ncalls, callvars, replay, writes,
                   default_calls, resultvars, hist>>

(* write_to_file() ends in png_error(): the process is terminated *)
IterAbort ==
    /\ pc = "iterate"
    /\ sinks' = Opened(sinks)
    /\ encodes' = encodes + 1
    /\ filters <= GREEDY_FILTER_5
    /\ Tried(filters)
    /\ pc' = "aborted"
    /\ UNCHANGED <<ftell_failed, raster, codec, codec_default, ncalls, callvars, replay, loopvars,
                   searchvars, writes, default_calls, resultvars, hist>>

(* the loops are over: the best settings become the replay struct *)
IterReturn ==
    /\ pc = "iterate"
    /\ sinks' = Freed(sinks)
    /\ filters > GREEDY_FILTER_5
    /\ replay' = best
    /\ pc' = "encode"
    /\ UNCHANGED <<encodes, raster, codec, codec_default, ncalls, ftell_failed, callvars, loopvars,
                   searchvars, writes, default_calls, resultvars, hist>>

(* ---- optimize_greedy(): the encode with the replay struct, and the return of save() ---- *)

(* variant: the filter field is not handed on *)
EncodeParamsNoFilter(r) == Param(r.compr_lvl, r.mem_lvl, r.strat, GREEDY_FILTER_0)

(* the parameters optimize_greedy() hands to write_to_file() *)
EncodeParams(r) == r

GreedyEncode ==
    /\ pc = "encode"
    /\ encodes' = encodes + 1
    /\ CodecAccepts(raster)
    /\ LET p == EncodeParams(replay) IN
       \E out \in Encodings(p) :
         LET ws == Append(writes, [params |-> p, bytes |-> out]) IN
            /\ codec' = Remember(p, out)
            /\ writes' = ws
            /\ outdata' = out
            /\ best_settings' = AsTuple(replay)
            /\ hist' = Append(hist, Done("returned", out, AsTuple(replay), ws))
    /\ pc' = "returned"
    /\ UNCHANGED <<sinks, raster, codec_default, ncalls, ftell_failed, callvars, replay, loopvars,
                   searchvars, default_calls>>

(* ftell() fails or fread() comes short: bytearray(-1) or the MemoryError is raised *)
GreedyCopyFail ==
    /\ pc = "encode"
    /\ encodes' = encodes + 1
    /\ CodecAccepts(raster)
    /\ LET p == EncodeParams(replay) IN
       \E out \in Encodings(p) :
         LET ws == Append(writes, [params |-> p, bytes |-> out]) IN
            /\ codec' = Remember(p, out)
            /\ writes' = ws
            /\ hist' = Append(hist, Done("raised", <<>>, None, ws))
    /\ pc' = "raised"
    /\ UNCHANGED <<sinks, ftell_failed, raster, codec_default, ncalls, callvars, replay, loopvars,
                   searchvars, default_calls, resultvars>>

(* write_to_file() ends in png_error(): the process is terminated *)
GreedyAbort ==
    /\ pc = "encode"
    /\ encodes' = encodes + 1
    /\ pc' = "aborted"
    /\ UNCHANGED <<sinks, ftell_failed, raster, codec, codec_default, ncalls, callvars, replay,
                   loopvars,
                   searchvars, writes, default_calls, resultvars, hist>>

Next ==
    \/ SaveCall
    \/ DefaultEncode
    \/ DefaultFail
    \/ GreedyEnter
    \/ IterSkip
    \/ IterTrial
    \/ IterAbort
    \/ IterReturn
    \/ GreedyEncode
    \/ GreedyCopyFail
    \/ GreedyAbort

Spec == Init /\ [][Next]_vars

(* a caller that searches once and then replays the reported settings, on a *)
(* raster libpng accepts and reads inside its buffer                        *)
InitReplay ==
    /\ Init
    /\ CodecAccepts(raster)
    /\ RowsInBuffer(raster)

NextReplay ==
    \/ SaveSearch
    \/ SaveReplay
    \/ GreedyEnter
    \/ IterSkip
    \/ IterTrial
    \/ IterAbort
    \/ IterReturn
    \/ GreedyEncode
    \/ GreedyCopyFail
    \/ GreedyAbort

SpecReplay == InitReplay /\ [][NextReplay]_vars


(* ======================= properties ======================= *)

(* a raster as the data model wants it: no zero dimension, and a buffer of *)
(* width * height * 4 bytes                                                *)
ValidRaster(r) == r.width > 0 /\ r.height > 0 /\ BufferLen(r) = r.width * r.height * CHANNELS

(* every field is inside the range write_to_file() documents as allowed *)
InRange(p) ==
    /\ p.compr_lvl \in AllowedLvl
    /\ p.mem_lvl \in AllowedMemLvl
    /\ p.strat \in AllowedStrat
    /\ p.filters \in AllowedFilters

(* at least one field of the 4-tuple is the unset value 0xFF *)
HasSentinel(t) == \E i \in 1 .. 4 : t[i] = UNSET

(* the enumeration order stated for the search: filter outermost, the      *)
(* no-filter value before the all-filters value, then strategy ascending,  *)
(* compression level 9 and memory level 8 throughout                       *)
Order ==
    << Param(9, 8, 0, 8), Param(9, 8, 1, 8), Param(9, 8, 2, 8), Param(9, 8, 3, 8),
       Param(9, 8, 0, 248), Param(9, 8, 1, 248), Param(9, 8, 2, 248), Param(9, 8, 3, 248) >>

OrderSet == {Order[i] : i \in 1 .. Len(Order)}

(* save() was called with COMPR_GREEDY and no settings, and has returned *)
SearchReturned ==
    /\ pc = "returned"
    /\ compr_method = "COMPR_GREEDY"
    /\ compr_settings = None

(* the size the trial of candidate c measured in this call *)
MeasuredSizes(c) == {trials[j].size : j \in {k \in 1 .. Len(trials) : trials[k].params = c}}

(* C1: for a raster with width > 0 and height > 0, the tuple save() returns *)
(* after a greedy search without override is one of the enumerated          *)
(* candidates, is not the unset tuple, and the size its trial measured is   *)
(* less than or equal to the size measured for every enumerated candidate.  *)
C1_SearchReturnsMinimum ==
    (SearchReturned /\ raster.width > 0 /\ raster.height > 0) =>
        /\ best_settings # AsTuple(UnsetParam)
        /\ \E c \in OrderSet :
            /\ best_settings = AsTuple(c)
            /\ \E sc \in MeasuredSizes(c) :
                \A d \in OrderSet : \E sd \in MeasuredSizes(d) : sc <= sd

C1_Witness ==
    /\ SearchReturned
    /\ raster.width > 0 /\ raster.height > 0
    /\ Len(trials) = 8
    /\ trials[1].size = 2
    /\ trials[6].size = 1
    /\ best_settings = AsTuple(Order[6])

(* C2: when several candidates measure the same minimal size, the search    *)
(* returns the one that comes first in the enumeration order: every         *)
(* candidate before the returned one measured a strictly larger size.       *)
C2_FirstMinimumWins ==
    SearchReturned =>
        \E i \in 1 .. Len(Order) :
            /\ best_settings = AsTuple(Order[i])
            /\ \E si \in MeasuredSizes(Order[i]) :
                /\ \A j \in 1 .. Len(Order) : \A sj \in MeasuredSizes(Order[j]) : si <= sj
                /\ \A j \in 1 .. (i - 1) : \A sj \in MeasuredSizes(Order[j]) : si < sj

C2_Witness ==
    /\ SearchReturned
    /\ Len(trials) = 8
    /\ trials[1].size = 2
    /\ trials[2].size = 1
    /\ trials[5].size = 1
    /\ trials[8].size = 1
    /\ best_settings = AsTuple(Order[2])


(* the current call of save() runs the search *)
Searching ==
    /\ compr_method = "COMPR_GREEDY"
    /\ (compr_settings = None \/ compr_settings[1] = UNSET)

(* the trials made so far are the first tuples of the enumeration order, each once *)
TrialsFollowOrder ==
    /\ Len(trials) <= Len(Order)
    /\ \A i \in 1 .. Len(trials) : trials[i].params = Order[i]
    /\ (pc = "iterate" => encodes = Len(trials))
    /\ ((Searching /\ pc \in {"encode", "returned", "raised"}) => Len(trials) = 8)

(* how far the four nested loops have come *)
LoopRank == ((filters * 4 + strategy) * 10 + compr_lvl) * 10 + mem_lvl

(* a step of the search that stays in the loops moves them forward, past no *)
(* more than one trial                                                      *)
LoopAdvances ==
    (pc = "iterate" /\ pc' = "iterate") =>
        /\ LoopRank' > LoopRank
        /\ filters' <= GREEDY_FILTER_5 + 1
        /\ Len(trials') <= Len(trials) + 1

(* the search is never stuck inside the loops *)
LoopNotStuck == (pc = "iterate") => ENABLED (IterSkip \/ IterTrial \/ IterAbort \/ IterReturn)

(* C3: with the default configuration a run of the greedy search ends (the  *)
(* loops only move forward, are bounded and are never stuck), and when it   *)
(* returns it has made exactly 8 trial encodes: the tuples of               *)
(* {0x08, 0xF8} x {0,1,2,3} x {9} x {8}, each once, filter outermost and    *)
(* strategy next; no other filter value reaches the trial encoder.          *)
C3_EightTrialsInOrder ==
    /\ []TrialsFollowOrder
    /\ []LoopNotStuck
    /\ [][LoopAdvances]_vars

C3_Witness ==
    /\ pc = "encode"
    /\ Searching
    /\ Len(trials) = 8
    /\ encodes = 8
    /\ filters = GREEDY_FILTER_5 + 1
    /\ trials[5].params.filters = 248


(* save() was called with COMPR_GREEDY and a 4-tuple none of whose fields is 0xFF *)
FullOverride ==
    /\ pc # "idle"
    /\ compr_method = "COMPR_GREEDY"
    /\ Len(compr_settings) = 4
    /\ ~HasSentinel(compr_settings)

(* C4: with COMPR_GREEDY and an override whose four fields are all          *)
(* non-sentinel the search is skipped (no trial happens), exactly one        *)
(* parameterized encode is made, with the four override values, and the      *)
(* returned tuple equals the override.                                       *)
C4_ReplaySkipsSearch ==
    FullOverride =>
        /\ pc # "iterate"
        /\ trials = <<>>
        /\ encodes <= 1
        /\ \A i \in 1 .. Len(writes) : AsTuple(writes[i].params) = compr_settings
        /\ (pc = "returned" =>
                /\ encodes = 1
                /\ Len(writes) = 1
                /\ best_settings = compr_settings)

C4_Witness ==
    /\ FullOverride
    /\ pc = "returned"
    /\ compr_settings = <<9, 8, 3, 248>>
    /\ best_settings = <<9, 8, 3, 248>>
    /\ encodes = 1

(* C5: with COMPR_GREEDY and an override that is absent or has the sentinel *)
(* 0xFF in at least one field, whichever it is, the search runs, the        *)
(* returned tuple is the search winner, and no tuple holding a sentinel is   *)
(* passed to the encoder.                                                    *)
C5_SentinelTriggersSearch ==
    (/\ pc \in {"encode", "returned"}
     /\ compr_method = "COMPR_GREEDY"
     /\ (compr_settings = None \/ HasSentinel(compr_settings))
     /\ ValidRaster(raster)) =>
        /\ Len(trials) = Len(Order)
        /\ \A i \in 1 .. Len(writes) : ~HasSentinel(AsTuple(writes[i].params))
        /\ (pc = "returned" => \E c \in OrderSet : best_settings = AsTuple(c))

(* C6: for a valid raster, if a call save(raster, COMPR_GREEDY) without      *)
(* override returned the tuple P, a later call save(raster, COMPR_GREEDY, P) *)
(* returns the bytes of the search trial that selected P, which are also the *)
(* bytes the searching call returned, and returns P again.                   *)
C6_ReplayReproducesSearch ==
    ValidRaster(raster) =>
        \A i \in 1 .. Len(hist) : \A j \in (i + 1) .. Len(hist) :
            (/\ hist[i].status = "returned"
             /\ hist[i].method = "COMPR_GREEDY"
             /\ hist[i].settings = None
             /\ hist[j].status = "returned"
             /\ hist[j].method = "COMPR_GREEDY"
             /\ hist[j].settings = hist[i].best_settings) =>
                /\ hist[j].best_settings = hist[i].best_settings
                /\ hist[j].outdata = hist[i].outdata
                /\ hist[j].trials = <<>>
                /\ \E k \in 1 .. Len(hist[i].trials) :
                    /\ AsTuple(hist[i].trials[k].params) = hist[i].best_settings
                    /\ hist[i].trials[k].bytes = hist[j].outdata

C6_Witness ==
    /\ ValidRaster(raster)
    /\ Len(hist) = 2
    /\ hist[1].status = "returned"
    /\ hist[1].settings = None
    /\ Len(hist[1].trials) = 8
    /\ hist[1].best_settings = <<9, 8, 1, 248>>
    /\ hist[2].status = "returned"
    /\ hist[2].settings = <<9, 8, 1, 248>>
    /\ Len(hist[2].outdata) = 1
    /\ Len(hist[1].trials[1].bytes) = 2

(* C7: with COMPR_DEFAULT save() encodes with libpng's built-in settings     *)
(* only: no parameterized encode, no search, the result does not depend on   *)
(* any settings passed, and the second element of the result is None.        *)
C7_DefaultReportsNone ==
    (pc # "idle" /\ compr_method = "COMPR_DEFAULT") =>
        /\ pc \notin {"optimize_greedy", "iterate", "encode"}
        /\ trials = <<>>
        /\ writes = <<>>
        /\ encodes = 0
        /\ (pc = "returned" =>
                /\ best_settings = None
                /\ default_calls = 2
                /\ outdata = codec_default)

C7_Witness ==
    /\ pc = "returned"
    /\ compr_method = "COMPR_DEFAULT"
    /\ compr_settings = <<9, 8, 3, 248>>
    /\ best_settings = None
    /\ Len(outdata) = 2

(* C8: if a trial encode fails during the search (libpng reports a failure,  *)
(* or the size query of the sink fails) the search is aborted and the        *)
(* failure reaches the caller: the size reported for the failed trial is not *)
(* stored as the best so far and the call returns no bytes and no tuple.     *)
C8_FailedTrialAborts ==
    \A i \in 1 .. Len(trials) :
        (ValidRaster(raster) /\ trials[i].failed) =>
            /\ pc \in {"raised", "aborted"}
            /\ best_filesize # trials[i].size
            /\ best # trials[i].params

(* C9: for a raster whose width or height is zero, or whose buffer length    *)
(* differs from width*height*4, save() is rejected before any call of the    *)
(* codec, with COMPR_DEFAULT and with COMPR_GREEDY: no encode, no trial and  *)
(* no sink is started.                                                       *)
C9_InvalidRasterRejected ==
    ~ValidRaster(raster) =>
        /\ encodes = 0
        /\ default_calls = 0
        /\ trials = <<>>
        /\ writes = <<>>
        /\ pc # "returned"

(* C10: with COMPR_GREEDY and a non-sentinel override with a field outside   *)
(* the allowed ranges (compression level 1..9, memory level 1..9, strategy   *)
(* 0..3, an allowed filter flag) the call is rejected before the override is *)
(* used: the encoder is never invoked with those parameters.                 *)
C10_OutOfRangeRejected ==
    (FullOverride /\ ValidRaster(raster) /\ ~InRange(ReplayOf(compr_settings))) =>
        /\ encodes = 0
        /\ writes = <<>>
        /\ pc # "returned"


(* C11: during the greedy search the buffer of each trial's in-memory sink   *)
(* is released before the next trial opens its sink: between two trials no   *)
(* buffer of an earlier trial is unreleased, and when the search has         *)
(* returned every buffer it allocated has been released exactly once.        *)
C11_SinksReleased ==
    ValidRaster(raster) =>
        /\ \A i \in 1 .. Len(sinks) : sinks[i] <= 1
        /\ (pc = "iterate" => \A i \in 1 .. Len(sinks) : sinks[i] = 1)
        /\ ((Searching /\ pc = "encode") => \A i \in 1 .. Len(sinks) : sinks[i] = 1)

====
